---------------------------- MODULE Spec2Model ----------------------------
(***************************************************************************)
(* A model of the Musica script extractor and its job pipeline:            *)
(*   storage.rs  the segment builders, combine and build, the store        *)
(*   parser.rs   the rule handlers, parse_file and parser_main             *)
(*   jobs.rs     the job types and dispatch_main                           *)
(*   main.rs     the enumeration of the input files and the two workers    *)
(* The specifications share the definitions:                               *)
(*   Spec         the pipeline: main, the Parse and the Dispatch workers   *)
(*   SpecFair     the pipeline under fair scheduling                       *)
(*   SpecPool     the workers with more jobs than their concurrency        *)
(*   SpecWalk     one parse_file call over a larger family of trees        *)
(*   SpecCombine  the builders' combine and build over pairs of fragments  *)
(***************************************************************************)
EXTENDS Integers, Sequences, FiniteSets, TLC

VARIABLES
    mainPc,         \* main: "enum" | "monitor" | "returned" | "failed"
    keepAlive,      \* KEEP_ALIVE: the store handles main has opened, by name
    parserJobs,     \* the Parse queue: rows [job, status]
    dispatchJobs,   \* the Dispatch queue
    analyzerJobs,   \* the Analyze queue
    translatorJobs, \* the Translate queue
    assemblerJobs,  \* the Assemble queue
    ph,             \* ph[i]: the state of parser_main on parserJobs[i]
    dh,             \* dh[j]: the state of dispatch_main on dispatchJobs[j]
    store,          \* store[name]: the rows of text_segments of that name
    schema,         \* the names whose store has the table text_segments
    dispatchLock,   \* the holder of the write lock of the Dispatch queue
    analyzerLock,   \* the holder of the write lock of the Analyze queue
    translatorLock, \* the holder of the write lock of the Translate queue
    cIn,            \* SpecCombine: the fragments <<a, b>> or <<a, b, c>>
    cOut,           \* SpecCombine: the results computed so far
    cBuilt          \* SpecCombine: the results of build of the fragments

vars == <<mainPc, keepAlive, parserJobs, dispatchJobs, analyzerJobs,
          translatorJobs, assemblerJobs, ph, dh, store, schema,
          dispatchLock, analyzerLock, translatorLock, cIn, cOut, cBuilt>>

pipelineVars == <<mainPc, keepAlive, parserJobs, dispatchJobs, analyzerJobs,
                  translatorJobs, assemblerJobs, ph, dh, store, schema,
                  dispatchLock, analyzerLock, translatorLock>>

combineVars == <<cIn, cOut, cBuilt>>

-----------------------------------------------------------------------------
(* Bounds *)

\* the number of input files the enumeration finds
NFiles == 2
\* the most top-level children of a generated syntax tree
MaxTop == 3
\* the most children of a generated named / unnamed message form
MaxAtoms == 3

(* Program constants *)

ParseConcurrency == 4
DispatchConcurrency == 2
I32Max == 2147483647

-----------------------------------------------------------------------------
(* Option and Result *)

None == <<>>
Some(v) == <<v>>
IsSome(o) == o # <<>>

Ok(v) == [ok |-> TRUE, val |-> v]
Err(e) == [ok |-> FALSE, err |-> e]

\* utils.rs: Option<T> -> Result<T>
into_any_result(o) ==
    IF IsSome(o) THEN Ok(o[1])
    ELSE Err("called 'Option::unwrap()' on a 'None' value")

-----------------------------------------------------------------------------
(* storage.rs: the builders *)

MessageFields == <<"line", "id", "name", "tachie", "content">>
NonMessageFields == <<"line", "content">>

new_message ==
    [variant |-> "IMessage", line |-> None, id |-> None, name |-> None,
     tachie |-> None, content |-> None]

new_non_message ==
    [variant |-> "INonMessage", line |-> None, content |-> None]

FieldsOf(b) == IF b.variant = "IMessage" THEN MessageFields ELSE NonMessageFields

\* the fields a builder has set
SetFields(b) == {FieldsOf(b)[k] : k \in {n \in 1..Len(FieldsOf(b)) : IsSome(b[FieldsOf(b)[n]])}}

merge_exclusive_lost(a, b, filed) ==
    IF IsSome(a) /\ IsSome(b)
    THEN Err("Conflict when merging field '" \o filed \o "'")
    ELSE IF IsSome(a) THEN Ok(a) ELSE Ok(None)

merge_exclusive_unequal(a, b, filed) ==
    IF IsSome(a) /\ IsSome(b) /\ a # b
    THEN Err("Conflict when merging field '" \o filed \o "'")
    ELSE IF IsSome(a) THEN Ok(a)
    ELSE IF IsSome(b) THEN Ok(b)
    ELSE Ok(None)

merge_exclusive(a, b, filed) ==
    IF IsSome(a) /\ IsSome(b)
    THEN Err("Conflict when merging field '" \o filed \o "'")
    ELSE IF IsSome(a) THEN Ok(a)
    ELSE IF IsSome(b) THEN Ok(b)
    ELSE Ok(None)

\* the first Err of a sequence of results, as a run of '?' returns it
FirstErr(rs) ==
    LET bad == {k \in 1..Len(rs) : ~rs[k].ok}
    IN  IF bad = {} THEN None
        ELSE Some(rs[CHOOSE k \in bad : \A m \in bad : k <= m].err)

IMessageModelBuilder_combine_any(self, other) ==
    LET rs == [k \in 1..5 |->
                  merge_exclusive(self[MessageFields[k]],
                                  IF MessageFields[k] \in DOMAIN other
                                  THEN other[MessageFields[k]] ELSE None,
                                  MessageFields[k])]
    IN  IF IsSome(FirstErr(rs)) THEN Err(FirstErr(rs)[1])
        ELSE Ok([variant |-> "IMessage", line |-> rs[1].val, id |-> rs[2].val,
                 name |-> rs[3].val, tachie |-> rs[4].val, content |-> rs[5].val])

IMessageModelBuilder_combine_name(self, other) ==
    IF other.variant = "INonMessage"
    THEN Err("Cannot combine IMessageModelBuilder with INonMessageModelBuilder")
    ELSE LET rs == [k \in 1..5 |->
                       merge_exclusive(self[MessageFields[k]],
                                       other[MessageFields[k]],
                                       MessageFields[k])]
         IN  IF IsSome(FirstErr(rs)) THEN Err(FirstErr(rs)[1])
             ELSE Ok([variant |-> "IMessage", line |-> rs[1].val,
                      id |-> rs[2].val, name |-> self.name,
                      tachie |-> rs[4].val, content |-> rs[5].val])

IMessageModelBuilder_combine(self, other) ==
    IF other.variant = "INonMessage"
    THEN Err("Cannot combine IMessageModelBuilder with INonMessageModelBuilder")
    ELSE LET rs == [k \in 1..5 |->
                       merge_exclusive(self[MessageFields[k]],
                                       other[MessageFields[k]],
                                       MessageFields[k])]
         IN  IF IsSome(FirstErr(rs)) THEN Err(FirstErr(rs)[1])
             ELSE Ok([variant |-> "IMessage", line |-> rs[1].val,
                      id |-> rs[2].val, name |-> rs[3].val,
                      tachie |-> rs[4].val, content |-> rs[5].val])

INonMessageModelBuilder_combine(self, other) ==
    IF other.variant = "IMessage"
    THEN Err("Cannot combine INonMessageModelBuilder with IMessageModelBuilder")
    ELSE LET rs == [k \in 1..2 |->
                       merge_exclusive(self[NonMessageFields[k]],
                                       other[NonMessageFields[k]],
                                       NonMessageFields[k])]
         IN  IF IsSome(FirstErr(rs)) THEN Err(FirstErr(rs)[1])
             ELSE Ok([variant |-> "INonMessage", line |-> rs[1].val,
                      content |-> rs[2].val])

InsertModelBuilder_combine(self, other) ==
    IF self.variant = "IMessage"
    THEN IMessageModelBuilder_combine(self, other)
    ELSE INonMessageModelBuilder_combine(self, other)

IsMergeConflict(r) ==
    /\ ~r.ok
    /\ r.err \in {"Conflict when merging field '" \o MessageFields[k] \o "'" : k \in 1..5}

IsTypeMismatch(r) ==
    /\ ~r.ok
    /\ r.err \in {"Cannot combine IMessageModelBuilder with INonMessageModelBuilder",
                  "Cannot combine INonMessageModelBuilder with IMessageModelBuilder"}



\* IMessageModel / INonMessageModel: the builders' build, derived by
\* derive_builder: the first unset mandatory field, in declaration order,
\* is the error; name and tachie default to the empty string
IMessageModelBuilder_build_id(b) ==
    IF ~IsSome(b.line) THEN Err("'line' must be initialized")
    ELSE IF ~IsSome(b.content) THEN Err("'content' must be initialized")
    ELSE Ok([type |-> "IMessage", line |-> b.line[1],
             id |-> IF IsSome(b.id) THEN b.id[1] ELSE 0,
             name |-> IF IsSome(b.name) THEN b.name[1] ELSE <<>>,
             tachie |-> IF IsSome(b.tachie) THEN b.tachie[1] ELSE <<>>,
             content |-> b.content[1]])

IMessageModelBuilder_build_name(b) ==
    IF ~IsSome(b.line) THEN Err("'line' must be initialized")
    ELSE IF ~IsSome(b.id) THEN Err("'id' must be initialized")
    ELSE IF ~IsSome(b.name) THEN Err("'name' must be initialized")
    ELSE IF ~IsSome(b.content) THEN Err("'content' must be initialized")
    ELSE Ok([type |-> "IMessage", line |-> b.line[1], id |-> b.id[1],
             name |-> b.name[1],
             tachie |-> IF IsSome(b.tachie) THEN b.tachie[1] ELSE <<>>,
             content |-> b.content[1]])

IMessageModelBuilder_build(b) ==
    IF ~IsSome(b.line) THEN Err("'line' must be initialized")
    ELSE IF ~IsSome(b.id) THEN Err("'id' must be initialized")
    ELSE IF ~IsSome(b.content) THEN Err("'content' must be initialized")
    ELSE Ok([type |-> "IMessage", line |-> b.line[1], id |-> b.id[1],
             name |-> IF IsSome(b.name) THEN b.name[1] ELSE <<>>,
             tachie |-> IF IsSome(b.tachie) THEN b.tachie[1] ELSE <<>>,
             content |-> b.content[1]])

INonMessageModelBuilder_build(b) ==
    IF ~IsSome(b.line) THEN Err("'line' must be initialized")
    ELSE IF ~IsSome(b.content) THEN Err("'content' must be initialized")
    ELSE Ok([type |-> "INonMessage", line |-> b.line[1], content |-> b.content[1]])

\* build of a fragment of either variant
Builder_build(b) ==
    IF b.variant = "IMessage" THEN IMessageModelBuilder_build(b)
    ELSE INonMessageModelBuilder_build(b)

\* UninitializedFieldError, as derive_builder displays it
IsBuildError(r) ==
    /\ ~r.ok
    /\ r.err \in {"'" \o MessageFields[k] \o "' must be initialized" : k \in 1..5}

\* TextSegmentType as i32
TextSegmentType(seg) == IF seg.type = "IMessage" THEN 0 ELSE 1

\* InsertModel::into_active_model: the variant tag and the segment as JSON,
\* which carries the variant again as "type"
into_active_model(seg) == [segment_type |-> TextSegmentType(seg), content |-> seg]

\* ActiveModel::insert: the primary key is assigned by the table
insert(rows, am) ==
    Append(rows, [id |-> Len(rows) + 1, segment_type |-> am.segment_type,
                  content |-> am.content])

NoSuchTable == "no such table: text_segments"

-----------------------------------------------------------------------------
(* parser.rs: the syntax tree and the rule handlers *)

\* a node of the tree the grammar returns: its rule, its text (as_str) and
\* its children (into_inner)
Node(rule, text, kids) == [rule |-> rule, text |-> text, kids |-> kids]

SilentRules ==
    {"EOI", "ASCII_PRINTABLE", "CJ_CHARACTERS", "CJ_PUNCTUATION",
     "CJ_HALF_FULL_WIDTH", "CJ_SEPARATOR", "CJ_LEFT_CORNER_BRACKET",
     "CJ_RIGHT_CORNER_BRACKET", "CJ_PUNCTUATION_WITHOUT_CORNER_BRACKET",
     "MUSICA_COMMAND", "MUSICA_PREPROC", "MUSICA_COMMENT", "IMusicaScript"}

NonMessageRules == {"IComment", "IInclude", "INonMessage"}

MessageFormRules == {"IMessageNamed", "IMessageUnnamed"}

DigitVal(c) ==
    CASE c = "0" -> 0 [] c = "1" -> 1 [] c = "2" -> 2 [] c = "3" -> 3
      [] c = "4" -> 4 [] c = "5" -> 5 [] c = "6" -> 6 [] c = "7" -> 7
      [] c = "8" -> 8 [] c = "9" -> 9 [] OTHER -> -1

\* str::parse::<i32>: the digits from position k on, acc the value so far
RECURSIVE from_str_radix(_, _, _, _)
from_str_radix(t, k, acc, neg) ==
    IF k > Len(t) THEN Ok(acc)
    ELSE LET d == DigitVal(t[k])
         IN  IF d < 0 THEN Err("invalid digit found in string")
             ELSE IF ~neg /\ (acc > (I32Max \div 10) \/ (acc = (I32Max \div 10) /\ d > (I32Max % 10)))
             THEN Err("number too large to fit in target type")
             ELSE IF neg /\ ((-acc) > (I32Max \div 10) \/ ((-acc) = (I32Max \div 10) /\ d > (I32Max % 10) + 1))
             THEN Err("number too small to fit in target type")
             ELSE from_str_radix(t, k + 1, IF neg THEN acc * 10 - d ELSE acc * 10 + d, neg)

parse_i32(t) ==
    IF t = <<>> THEN Err("cannot parse integer from empty string")
    ELSE IF t[1] \in {"+", "-"}
    THEN IF Len(t) = 1 THEN Err("invalid digit found in string")
         ELSE from_str_radix(t, 2, 0, t[1] = "-")
    ELSE from_str_radix(t, 1, 0, FALSE)

\* What a handler returns: res, its ParserResult<Option<TextSegmentBuilder>>,
\* and ins, the segments it inserted into the store, in order.  tbl says
\* whether the store has the table: an insert without it is an error.
Returned(res, ins) == [res |-> res, ins |-> ins]

silent_node(node, line, tbl) == Returned(Ok(None), <<>>)

non_message_node_fragment(node, line, tbl) ==
    LET model == INonMessageModelBuilder_build(
                     [new_non_message EXCEPT !.line = Some(line),
                                             !.content = Some(node.text)])
    IN  IF ~model.ok THEN Returned(Err(model.err), <<>>)
        ELSE IF ~tbl THEN Returned(Err(NoSuchTable), <<>>)
        ELSE Returned(Ok(Some(new_non_message)), <<model.val>>)

non_message_node_first(node, line, tbl) ==
    LET model == INonMessageModelBuilder_build(
                     [new_non_message EXCEPT !.line = Some(0),
                                             !.content = Some(node.text)])
    IN  IF ~model.ok THEN Returned(Err(model.err), <<>>)
        ELSE IF ~tbl THEN Returned(Err(NoSuchTable), <<>>)
        ELSE Returned(Ok(None), <<model.val>>)

non_message_node(node, line, tbl) ==
    LET model == INonMessageModelBuilder_build(
                     [new_non_message EXCEPT !.line = Some(line),
                                             !.content = Some(node.text)])
    IN  IF ~model.ok THEN Returned(Err(model.err), <<>>)
        ELSE IF ~tbl THEN Returned(Err(NoSuchTable), <<>>)
        ELSE Returned(Ok(None), <<model.val>>)

MessageNumber_parse(node, line, tbl) ==
    LET n == parse_i32(node.text)
    IN  IF ~n.ok THEN Returned(Err(n.err), <<>>)
        ELSE Returned(Ok(Some([new_message EXCEPT !.id = Some(n.val)])), <<>>)

MessageSpeakerName_parse(node, line, tbl) ==
    Returned(Ok(Some([new_message EXCEPT !.name = Some(node.text)])), <<>>)

MessageSpeakerTachie_parse_name(node, line, tbl) ==
    Returned(Ok(Some([new_message EXCEPT !.name = Some(node.text)])), <<>>)

MessageSpeakerTachie_parse(node, line, tbl) ==
    Returned(Ok(Some([new_message EXCEPT !.tachie = Some(node.text)])), <<>>)

MessageContentQuoted_parse(node, line, tbl) ==
    Returned(Ok(Some([new_message EXCEPT !.content = Some(node.text)])), <<>>)

MessageContentUnquoted_parse(node, line, tbl) ==
    Returned(Ok(Some([new_message EXCEPT !.content = Some(node.text)])), <<>>)

RECURSIVE parse(_, _, _)

\* the loop of IMessageNamed::parse and of IMessageUnnamed::parse from child
\* k on: builder is the accumulated builder, ins the inserts so far
RECURSIVE message_form_loop(_, _, _, _, _, _)

message_form_loop_one(kids, k, builder, ins, line, tbl) ==
    IF k > Len(kids) \/ k > 1 THEN Returned(Ok(Some(builder)), ins)
    ELSE LET r == parse(kids[k], line, tbl)
             segment == into_any_result(r.res.val)
             combined == IMessageModelBuilder_combine(builder, segment.val)
         IN  IF ~r.res.ok THEN Returned(r.res, ins \o r.ins)
             ELSE IF ~segment.ok THEN Returned(Err(segment.err), ins \o r.ins)
             ELSE IF ~combined.ok THEN Returned(Err(combined.err), ins \o r.ins)
             ELSE message_form_loop(kids, k + 1, combined.val, ins \o r.ins, line, tbl)

message_form_loop(kids, k, builder, ins, line, tbl) ==
    IF k > Len(kids) THEN Returned(Ok(Some(builder)), ins)
    ELSE LET r == parse(kids[k], line, tbl)
             segment == into_any_result(r.res.val)
             combined == IMessageModelBuilder_combine(builder, segment.val)
         IN  IF ~r.res.ok THEN Returned(r.res, ins \o r.ins)
             ELSE IF ~segment.ok THEN Returned(Err(segment.err), ins \o r.ins)
             ELSE IF ~combined.ok THEN Returned(Err(combined.err), ins \o r.ins)
             ELSE message_form_loop(kids, k + 1, combined.val, ins \o r.ins, line, tbl)

IMessageNamed_parse(node, line, tbl) ==
    message_form_loop(node.kids, 1, [new_message EXCEPT !.line = Some(line)],
                      <<>>, line, tbl)

IMessageUnnamed_parse(node, line, tbl) ==
    message_form_loop(node.kids, 1, [new_message EXCEPT !.line = Some(line)],
                      <<>>, line, tbl)

IMessage_parse_twice(node, line, tbl) ==
    IF node.kids = <<>> THEN Returned(Ok(None), <<>>)
    ELSE LET r == parse(node.kids[1], line, tbl)
             builder == into_any_result(r.res.val)
             message == IMessageModelBuilder_build(builder.val)
         IN  IF ~r.res.ok THEN r
             ELSE IF ~builder.ok THEN Returned(Err(builder.err), r.ins)
             ELSE IF builder.val.variant # "IMessage"
             THEN Returned(Err("Expected IMessageBuilder, found INonMessageBuilder"), r.ins)
             ELSE IF ~message.ok THEN Returned(Err(message.err), r.ins)
             ELSE IF ~tbl THEN Returned(Err(NoSuchTable), r.ins)
             ELSE Returned(Ok(None), r.ins \o <<message.val, message.val>>)

IMessage_parse(node, line, tbl) ==
    IF node.kids = <<>> THEN Returned(Ok(None), <<>>)
    ELSE LET r == parse(node.kids[1], line, tbl)
             builder == into_any_result(r.res.val)
             message == IMessageModelBuilder_build(builder.val)
         IN  IF ~r.res.ok THEN r
             ELSE IF ~builder.ok THEN Returned(Err(builder.err), r.ins)
             ELSE IF builder.val.variant # "IMessage"
             THEN Returned(Err("Expected IMessageBuilder, found INonMessageBuilder"), r.ins)
             ELSE IF ~message.ok THEN Returned(Err(message.err), r.ins)
             ELSE IF ~tbl THEN Returned(Err(NoSuchTable), r.ins)
             ELSE Returned(Ok(None), r.ins \o <<message.val>>)

\* MusicaParse::parse, dispatched on the rule of the node (enum_dispatch).
\* The root, of rule Musica, is walked by the actions WalkChild and
\* WalkReturn; no tree holds a Musica node below its root.
parse(node, line, tbl) ==
    CASE node.rule \in SilentRules -> silent_node(node, line, tbl)
      [] node.rule \in NonMessageRules -> non_message_node(node, line, tbl)
      [] node.rule = "IMessage" -> IMessage_parse(node, line, tbl)
      [] node.rule = "IMessageNamed" -> IMessageNamed_parse(node, line, tbl)
      [] node.rule = "IMessageUnnamed" -> IMessageUnnamed_parse(node, line, tbl)
      [] node.rule = "MessageNumber" -> MessageNumber_parse(node, line, tbl)
      [] node.rule = "MessageSpeakerName" -> MessageSpeakerName_parse(node, line, tbl)
      [] node.rule = "MessageSpeakerTachie" -> MessageSpeakerTachie_parse(node, line, tbl)
      [] node.rule = "MessageContentQuoted" -> MessageContentQuoted_parse(node, line, tbl)
      [] node.rule = "MessageContentUnquoted" -> MessageContentUnquoted_parse(node, line, tbl)

-----------------------------------------------------------------------------
(* The input: the files main finds and the trees the grammar returns *)

\* the p-th regular file under ./assets/sc: its path and its base name
FilePath(p) == <<"./assets/sc", p>>
FileName(p) == <<p>>

Files == 1..NFiles
Names == {FileName(p) : p \in Files}

SeqsUpTo(S, n) == UNION {[1..m -> S] : m \in 0..n}

Root(kids) == Node("Musica", <<>>, kids)

Comment == Node("IComment", <<";Hello comment">>, <<>>)
Include == Node("IInclude", <<"#include other.sc">>, <<>>)
Other == Node("INonMessage", <<"@bgm">>, <<>>)
Eoi == Node("EOI", <<>>, <<>>)

AtomNumber == Node("MessageNumber", <<"1">>, <<>>)
AtomName == Node("MessageSpeakerName", <<"Alice">>, <<>>)
AtomTachie == Node("MessageSpeakerTachie", <<"happy">>, <<>>)
AtomQuoted == Node("MessageContentQuoted", <<"Hi there">>, <<>>)
AtomUnquoted == Node("MessageContentUnquoted", <<"Bye">>, <<>>)
AtomSeparator == Node("CJ_SEPARATOR", <<" ">>, <<>>)
AtomHuge ==
    Node("MessageNumber", <<"9", "9", "9", "9", "9", "9", "9", "9", "9", "9">>, <<>>)

Message(form, atoms) == Node("IMessage", <<>>, <<Node(form, <<>>, atoms)>>)

\* 1 Alice [happy] "Hi there"
MessageFull ==
    Message("IMessageNamed", <<AtomNumber, AtomName, AtomTachie, AtomQuoted>>)
\* the same line without its number
MessageNoId ==
    Message("IMessageNamed", <<AtomName, AtomTachie, AtomQuoted>>)
\* a message form directly under the root: its handler returns a fragment
FormTop == Node("IMessageUnnamed", <<>>, <<AtomNumber, AtomUnquoted>>)

TopSamples == {Comment, Include, Other, Eoi, MessageFull, MessageNoId, FormTop}

AtomSamples ==
    {AtomNumber, AtomName, AtomTachie, AtomQuoted, AtomUnquoted, AtomSeparator,
     AtomHuge}

\* the trees of SpecWalk: every sequence of samples under the root, and
\* every message of every sequence of atoms as the only child of the root
WalkTrees ==
    {Root(kids) : kids \in SeqsUpTo(TopSamples, MaxTop)}
    \cup {Root(<<Message(form, atoms)>>) :
             form \in MessageFormRules, atoms \in SeqsUpTo(AtomSamples, MaxAtoms)}
    \cup {Root(<<Node("IMessage", <<>>, <<>>)>>)}

\* the trees of Spec
PipelineTrees ==
    {Root(<<>>), Root(<<Comment, Include>>), Root(<<MessageNoId>>),
     Root(<<FormTop, MessageFull>>)}

-----------------------------------------------------------------------------
(* jobs.rs: the jobs; the queues are tables of rows with a status *)

ParserJob(p) == [file_path |-> FilePath(p), file_name |-> FileName(p)]

DispatchJob_path(job) == [file_name |-> job.file_name, file_path |-> <<"./assets/sc", 0>>]

DispatchJob(job) == [file_name |-> job.file_name, file_path |-> job.file_path]

AnalyzerJob_name(job) == [file_name |-> <<0>>, file_path |-> job.file_path]

AnalyzerJob(job) == [file_name |-> job.file_name, file_path |-> job.file_path]

TranslatorJob(job) == [file_name |-> job.file_name, file_path |-> job.file_path]

\* Storage::push: the job becomes a pending row of the queue
push(queue, job) == Append(queue, [job |-> job, status |-> "Pending"])

Running(queue) == {i \in 1..Len(queue) : queue[i].status = "Running"}

SetStatus(queue, i, st) == [queue EXCEPT ![i].status = st]

-----------------------------------------------------------------------------
(* The handlers' states *)

\* parser_main on one Parse job: pc is where it stands; tree, k and line are
\* the root, the next child and the line counter of Musica::parse; visited
\* lists the <<child, line>> pairs dispatched so far; err is its error
PhIdle ==
    [pc |-> "idle", tree |-> Root(<<>>), k |-> 1, line |-> 0, visited |-> <<>>,
     err |-> ""]

\* dispatch_main on one Dispatch job
DhIdle == [pc |-> "idle", err |-> ""]

NoHolder == 0

-----------------------------------------------------------------------------
(* main.rs: the enumeration of the input files *)

\* KEEP_ALIVE.write().await: main holds the write guard of the registry
\* from before the loop to its return
KeepAliveWriteHeld == mainPc \in {"enum", "monitor"}

Enumerate_unregistered ==
    /\ mainPc = "enum"
    /\ Len(parserJobs) < NFiles
    /\ LET p == Len(parserJobs) + 1
       IN  \E outcome \in {"ok", "connect failed", "push failed"} :
             /\ keepAlive' = keepAlive
             /\ parserJobs' = IF outcome = "ok" THEN push(parserJobs, ParserJob(p))
                              ELSE parserJobs
             /\ ph' = IF outcome = "ok" THEN Append(ph, PhIdle) ELSE ph
             /\ mainPc' = IF outcome = "ok" THEN "enum" ELSE "failed"
    /\ UNCHANGED <<dispatchJobs, analyzerJobs, translatorJobs, assemblerJobs, dh,
                   store, schema, dispatchLock, analyzerLock, translatorLock,
                   combineVars>>

\* one turn of the loop over the files: open the store of the file, keep
\* the handle, push the Parse job; either call may fail, which ends main
Enumerate ==
    /\ mainPc = "enum"
    /\ Len(parserJobs) < NFiles
    /\ LET p == Len(parserJobs) + 1
       IN  \E outcome \in {"ok", "connect failed", "push failed"} :
             /\ keepAlive' = IF outcome = "connect failed" THEN keepAlive
                             ELSE Append(keepAlive, FileName(p))
             /\ parserJobs' = IF outcome = "ok" THEN push(parserJobs, ParserJob(p))
                              ELSE parserJobs
             /\ ph' = IF outcome = "ok" THEN Append(ph, PhIdle) ELSE ph
             /\ mainPc' = IF outcome = "ok" THEN "enum" ELSE "failed"
    /\ UNCHANGED <<dispatchJobs, analyzerJobs, translatorJobs, assemblerJobs, dh,
                   store, schema, dispatchLock, analyzerLock, translatorLock,
                   combineVars>>

\* the two workers are built and registered with the monitor
Register ==
    /\ mainPc = "enum"
    /\ Len(parserJobs) = NFiles
    /\ mainPc' = "monitor"
    /\ UNCHANGED <<keepAlive, parserJobs, dispatchJobs, analyzerJobs,
                   translatorJobs, assemblerJobs, ph, dh, store, schema,
                   dispatchLock, analyzerLock, translatorLock, combineVars>>

\* main returns Ok(()): it never awaits the run of the monitor, which is
\* dropped with its workers, and the process ends.  The steps of the workers
\* below are those of a run of the monitor; none is possible once main has
\* returned.
Return ==
    /\ mainPc = "monitor"
    /\ mainPc' = "returned"
    /\ UNCHANGED <<keepAlive, parserJobs, dispatchJobs, analyzerJobs,
                   translatorJobs, assemblerJobs, ph, dh, store, schema,
                   dispatchLock, analyzerLock, translatorLock, combineVars>>

-----------------------------------------------------------------------------
(* The Parse worker: parser_main *)

PullParse_unbounded(i) ==
    /\ mainPc = "monitor"
    /\ parserJobs[i].status = "Pending"
    /\ parserJobs' = SetStatus(parserJobs, i, "Running")
    /\ ph' = [ph EXCEPT ![i].pc = "parse_file"]
    /\ UNCHANGED <<mainPc, keepAlive, dispatchJobs, analyzerJobs, translatorJobs,
                   assemblerJobs, dh, store, schema, dispatchLock, analyzerLock,
                   translatorLock, combineVars>>

\* the worker takes a pending Parse job, within its concurrency
PullParse(i) ==
    /\ mainPc = "monitor"
    /\ parserJobs[i].status = "Pending"
    /\ Cardinality(Running(parserJobs)) < ParseConcurrency
    /\ parserJobs' = SetStatus(parserJobs, i, "Running")
    /\ ph' = [ph EXCEPT ![i].pc = "parse_file"]
    /\ UNCHANGED <<mainPc, keepAlive, dispatchJobs, analyzerJobs, translatorJobs,
                   assemblerJobs, dh, store, schema, dispatchLock, analyzerLock,
                   translatorLock, combineVars>>

\* parser_main returns Err(e): the job is failed
ParseFailed(i, e) ==
    /\ ph' = [ph EXCEPT ![i].pc = "err", ![i].err = e]
    /\ parserJobs' = SetStatus(parserJobs, i, "Failed")

\* parse_file up to the call of the root's handler: the store is opened, the
\* file read and parsed; each may fail
ParseFileOpen(i, trees) ==
    /\ mainPc = "monitor"
    /\ ph[i].pc = "parse_file"
    /\ \/ \E e \in {"create_db_connection", "read_to_string", "MusicaParser::parse"} :
             ParseFailed(i, e)
       \/ \E t \in trees :
             /\ ph' = [ph EXCEPT ![i].pc = "walk", ![i].tree = t, ![i].k = 1,
                                 ![i].line = 0]
             /\ UNCHANGED parserJobs
    /\ UNCHANGED <<mainPc, keepAlive, dispatchJobs, analyzerJobs, translatorJobs,
                   assemblerJobs, dh, store, schema, dispatchLock, analyzerLock,
                   translatorLock, combineVars>>

\* what the loop of Musica::parse does with what the child's handler
\* returned: an Err or no fragment ends the walk, a fragment is dropped
MusicaChild_lenient(r) ==
    IF ~r.ok THEN r ELSE Ok(None)

MusicaChild(r) ==
    IF ~r.ok THEN r ELSE into_any_result(r.val)

MusicaNextLine(line) == line + 1

WalkChild_rollback(i) ==
    /\ mainPc = "monitor"
    /\ ph[i].pc = "walk"
    /\ ph[i].k <= Len(ph[i].tree.kids)
    /\ LET name == parserJobs[i].job.file_name
           r == parse(ph[i].tree.kids[ph[i].k], ph[i].line, name \in schema)
           c == MusicaChild(r.res)
           seen == Append(ph[i].visited, <<ph[i].k - 1, ph[i].line>>)
       IN  IF c.ok
           THEN /\ store' = [store EXCEPT ![name] =
                                IF r.ins = <<>> THEN @
                                ELSE insert(@, into_active_model(r.ins[1]))]
                /\ ph' = [ph EXCEPT ![i].k = @ + 1,
                                    ![i].line = MusicaNextLine(@),
                                    ![i].visited = seen]
                /\ UNCHANGED parserJobs
           ELSE /\ store' = [store EXCEPT ![name] = <<>>]
                /\ ph' = [ph EXCEPT ![i].pc = "err", ![i].err = c.err,
                                    ![i].visited = seen]
                /\ parserJobs' = SetStatus(parserJobs, i, "Failed")
    /\ UNCHANGED <<mainPc, keepAlive, dispatchJobs, analyzerJobs, translatorJobs,
                   assemblerJobs, dh, schema, dispatchLock, analyzerLock,
                   translatorLock, combineVars>>

\* one turn of the loop of Musica::parse: the next child is dispatched with
\* the line counter; its inserts reach the store
WalkChild(i) ==
    /\ mainPc = "monitor"
    /\ ph[i].pc = "walk"
    /\ ph[i].k <= Len(ph[i].tree.kids)
    /\ LET name == parserJobs[i].job.file_name
           r == parse(ph[i].tree.kids[ph[i].k], ph[i].line, name \in schema)
           c == MusicaChild(r.res)
           seen == Append(ph[i].visited, <<ph[i].k - 1, ph[i].line>>)
       IN  /\ store' = [store EXCEPT ![name] =
                           IF r.ins = <<>> THEN @
                           ELSE insert(@, into_active_model(r.ins[1]))]
           /\ IF c.ok
              THEN /\ ph' = [ph EXCEPT ![i].k = @ + 1,
                                       ![i].line = MusicaNextLine(@),
                                       ![i].visited = seen]
                   /\ UNCHANGED parserJobs
              ELSE /\ ph' = [ph EXCEPT ![i].pc = "err", ![i].err = c.err,
                                       ![i].visited = seen]
                   /\ parserJobs' = SetStatus(parserJobs, i, "Failed")
    /\ UNCHANGED <<mainPc, keepAlive, dispatchJobs, analyzerJobs, translatorJobs,
                   assemblerJobs, dh, schema, dispatchLock, analyzerLock,
                   translatorLock, combineVars>>

WalkReturn_early(i) ==
    /\ mainPc = "monitor"
    /\ ph[i].pc = "walk"
    /\ ph' = [ph EXCEPT ![i].pc = "lock"]
    /\ UNCHANGED <<mainPc, keepAlive, parserJobs, dispatchJobs, analyzerJobs,
                   translatorJobs, assemblerJobs, dh, store, schema, dispatchLock,
                   analyzerLock, translatorLock, combineVars>>

\* the loop is over: Musica::parse and parse_file return Ok
WalkReturn(i) ==
    /\ mainPc = "monitor"
    /\ ph[i].pc = "walk"
    /\ ph[i].k > Len(ph[i].tree.kids)
    /\ ph' = [ph EXCEPT ![i].pc = "lock"]
    /\ UNCHANGED <<mainPc, keepAlive, parserJobs, dispatchJobs, analyzerJobs,
                   translatorJobs, assemblerJobs, dh, store, schema, dispatchLock,
                   analyzerLock, translatorLock, combineVars>>

AcquireDispatch_free(i) ==
    /\ mainPc = "monitor"
    /\ ph[i].pc = "lock"
    /\ dispatchLock' = i
    /\ ph' = [ph EXCEPT ![i].pc = "push"]
    /\ UNCHANGED <<mainPc, keepAlive, parserJobs, dispatchJobs, analyzerJobs,
                   translatorJobs, assemblerJobs, dh, store, schema, analyzerLock,
                   translatorLock, combineVars>>

\* dispatch.write().await
AcquireDispatch(i) ==
    /\ mainPc = "monitor"
    /\ ph[i].pc = "lock"
    /\ dispatchLock = NoHolder
    /\ dispatchLock' = i
    /\ ph' = [ph EXCEPT ![i].pc = "push"]
    /\ UNCHANGED <<mainPc, keepAlive, parserJobs, dispatchJobs, analyzerJobs,
                   translatorJobs, assemblerJobs, dh, store, schema, analyzerLock,
                   translatorLock, combineVars>>

\* dispatch.push(..).await?, and the return, which drops the guard
PushDispatch(i) ==
    /\ mainPc = "monitor"
    /\ ph[i].pc = "push"
    /\ dispatchLock' = NoHolder
    /\ \/ /\ dispatchJobs' = push(dispatchJobs, DispatchJob(parserJobs[i].job))
          /\ dh' = Append(dh, DhIdle)
          /\ ph' = [ph EXCEPT ![i].pc = "ok"]
          /\ parserJobs' = SetStatus(parserJobs, i, "Done")
       \/ /\ ParseFailed(i, "push")
          /\ UNCHANGED <<dispatchJobs, dh>>
    /\ UNCHANGED <<mainPc, keepAlive, analyzerJobs, translatorJobs, assemblerJobs,
                   store, schema, analyzerLock, translatorLock, combineVars>>

-----------------------------------------------------------------------------
(* The Dispatch worker: dispatch_main *)

PullDispatch(j) ==
    /\ mainPc = "monitor"
    /\ dispatchJobs[j].status = "Pending"
    /\ Cardinality(Running(dispatchJobs)) < DispatchConcurrency
    /\ dispatchJobs' = SetStatus(dispatchJobs, j, "Running")
    /\ dh' = [dh EXCEPT ![j].pc = "lock analyzer"]
    /\ UNCHANGED <<mainPc, keepAlive, parserJobs, analyzerJobs, translatorJobs,
                   assemblerJobs, ph, store, schema, dispatchLock, analyzerLock,
                   translatorLock, combineVars>>

DispatchFailed(j, e) ==
    /\ dh' = [dh EXCEPT ![j].pc = "err", ![j].err = e]
    /\ dispatchJobs' = SetStatus(dispatchJobs, j, "Failed")

\* analyzer.write().await
AcquireAnalyzer(j) ==
    /\ mainPc = "monitor"
    /\ dh[j].pc = "lock analyzer"
    /\ analyzerLock = NoHolder
    /\ analyzerLock' = j
    /\ dh' = [dh EXCEPT ![j].pc = "push analyzer"]
    /\ UNCHANGED <<mainPc, keepAlive, parserJobs, dispatchJobs, analyzerJobs,
                   translatorJobs, assemblerJobs, ph, store, schema, dispatchLock,
                   translatorLock, combineVars>>

PushAnalyzer_keep(j) ==
    /\ mainPc = "monitor"
    /\ dh[j].pc = "push analyzer"
    /\ \/ /\ analyzerJobs' = push(analyzerJobs, AnalyzerJob(dispatchJobs[j].job))
          /\ dh' = [dh EXCEPT ![j].pc = "lock translator"]
          /\ UNCHANGED <<dispatchJobs, analyzerLock>>
       \/ /\ DispatchFailed(j, "push analyzer")
          /\ analyzerLock' = NoHolder
          /\ UNCHANGED analyzerJobs
    /\ UNCHANGED <<mainPc, keepAlive, parserJobs, translatorJobs, assemblerJobs,
                   ph, store, schema, dispatchLock, translatorLock, combineVars>>

\* analyzer.push(..).await?, and the end of the block, which drops the guard
PushAnalyzer(j) ==
    /\ mainPc = "monitor"
    /\ dh[j].pc = "push analyzer"
    /\ analyzerLock' = NoHolder
    /\ \/ /\ analyzerJobs' = push(analyzerJobs, AnalyzerJob(dispatchJobs[j].job))
          /\ dh' = [dh EXCEPT ![j].pc = "lock translator"]
          /\ UNCHANGED dispatchJobs
       \/ /\ DispatchFailed(j, "push analyzer")
          /\ UNCHANGED analyzerJobs
    /\ UNCHANGED <<mainPc, keepAlive, parserJobs, translatorJobs, assemblerJobs,
                   ph, store, schema, dispatchLock, translatorLock, combineVars>>

\* translator.write().await
AcquireTranslator(j) ==
    /\ mainPc = "monitor"
    /\ dh[j].pc = "lock translator"
    /\ translatorLock = NoHolder
    /\ translatorLock' = j
    /\ dh' = [dh EXCEPT ![j].pc = "push translator"]
    /\ UNCHANGED <<mainPc, keepAlive, parserJobs, dispatchJobs, analyzerJobs,
                   translatorJobs, assemblerJobs, ph, store, schema, dispatchLock,
                   analyzerLock, combineVars>>

PushTranslator_rollback(j) ==
    /\ mainPc = "monitor"
    /\ dh[j].pc = "push translator"
    /\ translatorLock' = NoHolder
    /\ \/ /\ translatorJobs' = push(translatorJobs, TranslatorJob(dispatchJobs[j].job))
          /\ dh' = [dh EXCEPT ![j].pc = "ok"]
          /\ dispatchJobs' = SetStatus(dispatchJobs, j, "Done")
          /\ UNCHANGED analyzerJobs
       \/ /\ DispatchFailed(j, "push translator")
          /\ analyzerJobs' = SelectSeq(analyzerJobs,
                 LAMBDA row : row.job.file_path # dispatchJobs[j].job.file_path)
          /\ UNCHANGED translatorJobs
    /\ UNCHANGED <<mainPc, keepAlive, parserJobs, assemblerJobs,
                   ph, store, schema, dispatchLock, analyzerLock, combineVars>>

PushTranslator_assemble(j) ==
    /\ mainPc = "monitor"
    /\ dh[j].pc = "push translator"
    /\ translatorLock' = NoHolder
    /\ \/ /\ translatorJobs' = push(translatorJobs, TranslatorJob(dispatchJobs[j].job))
          /\ assemblerJobs' = push(assemblerJobs, TranslatorJob(dispatchJobs[j].job))
          /\ dh' = [dh EXCEPT ![j].pc = "ok"]
          /\ dispatchJobs' = SetStatus(dispatchJobs, j, "Done")
       \/ /\ DispatchFailed(j, "push translator")
          /\ UNCHANGED <<translatorJobs, assemblerJobs>>
    /\ UNCHANGED <<mainPc, keepAlive, parserJobs, analyzerJobs,
                   ph, store, schema, dispatchLock, analyzerLock, combineVars>>

\* translator.push(..).await?, the end of the block, and the return
PushTranslator(j) ==
    /\ mainPc = "monitor"
    /\ dh[j].pc = "push translator"
    /\ translatorLock' = NoHolder
    /\ \/ /\ translatorJobs' = push(translatorJobs, TranslatorJob(dispatchJobs[j].job))
          /\ dh' = [dh EXCEPT ![j].pc = "ok"]
          /\ dispatchJobs' = SetStatus(dispatchJobs, j, "Done")
       \/ /\ DispatchFailed(j, "push translator")
          /\ UNCHANGED translatorJobs
    /\ UNCHANGED <<mainPc, keepAlive, parserJobs, analyzerJobs, assemblerJobs,
                   ph, store, schema, dispatchLock, analyzerLock, combineVars>>

-----------------------------------------------------------------------------
(* SpecCombine: combine applied to every pair of fragments, and to every   *)
(* triple of same-variant fragments with pairwise disjoint fields          *)

\* a text is a sequence of chunks; a chunk is one character of a number, or
\* a run of characters of any other text
LineVals == {0, 1}
IdVals == {1, 2}
NameVals == {<<"Alice">>}
TachieVals == {<<"happy">>}
ContentVals == {<<"Hi there">>, <<"Bye">>}

Opt(S) == {None} \cup {Some(v) : v \in S}

MessageBuilders ==
    [variant : {"IMessage"}, line : Opt(LineVals), id : Opt(IdVals),
     name : Opt(NameVals), tachie : Opt(TachieVals), content : Opt(ContentVals)]

NonMessageBuilders ==
    [variant : {"INonMessage"}, line : Opt(LineVals), content : Opt(ContentVals)]

Builders == MessageBuilders \cup NonMessageBuilders

Disjoint(a, b) == SetFields(a) \cap SetFields(b) = {}

\* (a . b) . c and a . (b . c), an Err ending the computation as '?' does
CombineLeft(a, b, c) ==
    LET ab == InsertModelBuilder_combine(a, b)
    IN  IF ab.ok THEN InsertModelBuilder_combine(ab.val, c) ELSE ab

CombineRight(a, b, c) ==
    LET bc == InsertModelBuilder_combine(b, c)
    IN  IF bc.ok THEN InsertModelBuilder_combine(a, bc.val) ELSE bc

CombinePair ==
    /\ Len(cIn) = 2 /\ cOut = <<>>
    /\ cOut' = <<InsertModelBuilder_combine(cIn[1], cIn[2]),
                 InsertModelBuilder_combine(cIn[2], cIn[1])>>
    /\ UNCHANGED <<cIn, cBuilt, pipelineVars>>

CombineThird ==
    /\ Len(cIn) = 2 /\ Len(cOut) = 2
    /\ cIn[1].variant = cIn[2].variant
    /\ Disjoint(cIn[1], cIn[2])
    /\ \E c \in Builders :
          /\ c.variant = cIn[1].variant
          /\ Disjoint(cIn[1], c) /\ Disjoint(cIn[2], c)
          /\ cIn' = <<cIn[1], cIn[2], c>>
          /\ cOut' = cOut \o <<CombineLeft(cIn[1], cIn[2], c),
                               CombineRight(cIn[1], cIn[2], c)>>
    /\ UNCHANGED <<cBuilt, pipelineVars>>

\* build applied to each of the two fragments
BuildPair ==
    /\ Len(cIn) = 2 /\ cBuilt = <<>>
    /\ cBuilt' = <<Builder_build(cIn[1]), Builder_build(cIn[2])>>
    /\ UNCHANGED <<cIn, cOut, pipelineVars>>

NextCombine == CombinePair \/ CombineThird \/ BuildPair

-----------------------------------------------------------------------------
(* The specifications *)

\* main starts with empty queues and an empty registry and every store is
\* empty.  No code modelled here calls create_table: the stores have the
\* table, all of them or none, as the rest of the process left them.
Init ==
    /\ mainPc = "enum"
    /\ keepAlive = <<>>
    /\ parserJobs = <<>> /\ dispatchJobs = <<>> /\ analyzerJobs = <<>>
    /\ translatorJobs = <<>> /\ assemblerJobs = <<>>
    /\ ph = <<>> /\ dh = <<>>
    /\ store = [n \in Names |-> <<>>]
    /\ schema \in {{}, Names}
    /\ dispatchLock = NoHolder /\ analyzerLock = NoHolder
    /\ translatorLock = NoHolder
    /\ cIn = <<>> /\ cOut = <<>> /\ cBuilt = <<>>

Next ==
    \/ Enumerate
    \/ Register
    \/ Return
    \/ \E i \in 1..Len(parserJobs) : PullParse(i)
    \/ \E i \in 1..Len(parserJobs) : ParseFileOpen(i, PipelineTrees)
    \/ \E i \in 1..Len(parserJobs) : WalkChild(i)
    \/ \E i \in 1..Len(parserJobs) : WalkReturn(i)
    \/ \E i \in 1..Len(parserJobs) : AcquireDispatch(i)
    \/ \E i \in 1..Len(parserJobs) : PushDispatch(i)
    \/ \E j \in 1..Len(dispatchJobs) : PullDispatch(j)
    \/ \E j \in 1..Len(dispatchJobs) : AcquireAnalyzer(j)
    \/ \E j \in 1..Len(dispatchJobs) : PushAnalyzer(j)
    \/ \E j \in 1..Len(dispatchJobs) : AcquireTranslator(j)
    \/ \E j \in 1..Len(dispatchJobs) : PushTranslator(j)

Spec == Init /\ [][Next]_vars

\* the pipeline under fair scheduling: a step is taken whenever main or a
\* handler can take one.  No step can be taken twice, so every behaviour
\* ends in a state where none is possible, and no handler that can go on
\* is left waiting for ever.
SpecFair == Spec /\ WF_vars(Next)

\* one Parse job, taken by the worker, of a file of any tree of WalkTrees
InitWalk ==
    /\ mainPc = "monitor"
    /\ keepAlive = <<FileName(1)>>
    /\ parserJobs = push(<<>>, ParserJob(1))
    /\ dispatchJobs = <<>> /\ analyzerJobs = <<>>
    /\ translatorJobs = <<>> /\ assemblerJobs = <<>>
    /\ ph = <<PhIdle>> /\ dh = <<>>
    /\ store = [n \in Names |-> <<>>]
    /\ schema \in SUBSET {FileName(1)}
    /\ dispatchLock = NoHolder /\ analyzerLock = NoHolder
    /\ translatorLock = NoHolder
    /\ cIn = <<>> /\ cOut = <<>> /\ cBuilt = <<>>

NextWalk ==
    \/ PullParse(1)
    \/ ParseFileOpen(1, WalkTrees)
    \/ WalkChild(1)
    \/ WalkReturn(1)
    \/ AcquireDispatch(1)
    \/ PushDispatch(1)

SpecWalk == InitWalk /\ [][NextWalk]_vars

\* The worker pools with one job more than their concurrency: either the
\* Parse queue as the enumeration of ParsePool files leaves it, or the
\* Dispatch queue after DispatchPool files were parsed, each an empty script.
\* The files of the first are files parse_file cannot open or parse.
ParsePool == ParseConcurrency + 1
DispatchPool == DispatchConcurrency + 1

PoolNames == {FileName(p) : p \in 1..ParsePool}

NoTrees == {}

InitPool ==
    /\ mainPc = "monitor"
    /\ \/ /\ parserJobs = [p \in 1..ParsePool |->
                              [job |-> ParserJob(p), status |-> "Pending"]]
          /\ ph = [p \in 1..ParsePool |-> PhIdle]
          /\ dispatchJobs = <<>> /\ dh = <<>>
       \/ /\ parserJobs = [p \in 1..DispatchPool |->
                              [job |-> ParserJob(p), status |-> "Done"]]
          /\ ph = [p \in 1..DispatchPool |-> [PhIdle EXCEPT !.pc = "ok"]]
          /\ dispatchJobs = [p \in 1..DispatchPool |->
                                [job |-> DispatchJob(ParserJob(p)),
                                 status |-> "Pending"]]
          /\ dh = [p \in 1..DispatchPool |-> DhIdle]
    /\ keepAlive = [p \in 1..Len(parserJobs) |-> FileName(p)]
    /\ analyzerJobs = <<>> /\ translatorJobs = <<>> /\ assemblerJobs = <<>>
    /\ store = [n \in PoolNames |-> <<>>]
    /\ schema = {}
    /\ dispatchLock = NoHolder /\ analyzerLock = NoHolder
    /\ translatorLock = NoHolder
    /\ cIn = <<>> /\ cOut = <<>> /\ cBuilt = <<>>

NextPool ==
    \/ \E i \in 1..Len(parserJobs) : PullParse(i)
    \/ \E i \in 1..Len(parserJobs) : ParseFileOpen(i, NoTrees)
    \/ \E j \in 1..Len(dispatchJobs) : PullDispatch(j)
    \/ \E j \in 1..Len(dispatchJobs) : AcquireAnalyzer(j)
    \/ \E j \in 1..Len(dispatchJobs) : PushAnalyzer(j)
    \/ \E j \in 1..Len(dispatchJobs) : AcquireTranslator(j)
    \/ \E j \in 1..Len(dispatchJobs) : PushTranslator(j)

SpecPool == InitPool /\ [][NextPool]_vars

\* every pair of fragments; the pipeline stands still
InitCombine ==
    /\ mainPc = "enum"
    /\ keepAlive = <<>>
    /\ parserJobs = <<>> /\ dispatchJobs = <<>> /\ analyzerJobs = <<>>
    /\ translatorJobs = <<>> /\ assemblerJobs = <<>>
    /\ ph = <<>> /\ dh = <<>>
    /\ store = [n \in Names |-> <<>>]
    /\ schema = {}
    /\ dispatchLock = NoHolder /\ analyzerLock = NoHolder
    /\ translatorLock = NoHolder
    /\ cIn \in Builders \X Builders
    /\ cOut = <<>> /\ cBuilt = <<>>

SpecCombine == InitCombine /\ [][NextCombine]_vars

-----------------------------------------------------------------------------
(* The claims *)

\* the rows of a queue that carry the path of a job
RowsOf(queue, job) ==
    {m \in 1..Len(queue) : queue[m].job.file_path = job.file_path}

\* the rows of the Dispatch queue for the file of Parse job i
DispatchRowsOf(i) == RowsOf(dispatchJobs, parserJobs[i].job)

SameFile(a, b) == a.file_path = b.file_path /\ a.file_name = b.file_name

OpenErrors == {"create_db_connection", "read_to_string", "MusicaParser::parse"}

\* parse_file has returned an error to parser_main
ParseFileFailed(h) == h.pc = "err" /\ h.err # "push"

\* the root's handler has returned, with Ok or with an error
WalkOver(h) ==
    \/ h.pc \in {"lock", "push", "ok"}
    \/ h.pc = "err" /\ h.err \notin OpenErrors

\* the walk has ended with an error at the child it dispatched last
WalkFailed(h) == h.pc = "err" /\ h.visited # <<>> /\ h.k <= Len(h.tree.kids)

\* C1: for every Parse job whose handler has returned Ok the Dispatch queue
\* holds exactly one job of its file, with its file_path and file_name; no
\* Parse job ever has more than one, and every Dispatch job is of the file
\* of a Parse job.
C1_OneDispatchPerParsed ==
    /\ \A i \in 1..Len(parserJobs) :
          /\ Cardinality(DispatchRowsOf(i)) <= 1
          /\ ph[i].pc = "ok" =>
                /\ Cardinality(DispatchRowsOf(i)) = 1
                /\ \A j \in DispatchRowsOf(i) :
                      SameFile(dispatchJobs[j].job, parserJobs[i].job)
    /\ \A j \in 1..Len(dispatchJobs) :
          \E i \in 1..Len(parserJobs) :
             ph[i].pc = "ok" /\ SameFile(dispatchJobs[j].job, parserJobs[i].job)

C1_Witness ==
    \E i \in 1..Len(parserJobs) :
       /\ ph[i].pc = "ok" /\ parserJobs[i].status = "Done"
       /\ Cardinality(DispatchRowsOf(i)) = 1

\* C2, as claimed: every Dispatch job dispatch_main has handled, with Ok or
\* with an error, has exactly one Analyze job and exactly one Translate job.
C2_OnePerProcessed ==
    \A j \in 1..Len(dispatchJobs) :
       dh[j].pc \in {"ok", "err"} =>
          /\ Cardinality(RowsOf(analyzerJobs, dispatchJobs[j].job)) = 1
          /\ Cardinality(RowsOf(translatorJobs, dispatchJobs[j].job)) = 1

C2_Pushes ==
    \A j \in 1..Len(dispatchJobs) :
       LET job == dispatchJobs[j].job
           an == RowsOf(analyzerJobs, job)
           tr == RowsOf(translatorJobs, job)
       IN  /\ Cardinality(an) <= 1 /\ Cardinality(tr) <= 1
           /\ \A m \in an : SameFile(analyzerJobs[m].job, job)
           /\ \A m \in tr : SameFile(translatorJobs[m].job, job)
           /\ dh[j].pc = "ok" => Cardinality(an) = 1 /\ Cardinality(tr) = 1
           /\ dh[j].pc = "err" /\ dh[j].err = "push analyzer" => an = {} /\ tr = {}
           /\ dh[j].pc = "err" /\ dh[j].err = "push translator" =>
                 Cardinality(an) = 1 /\ tr = {}

\* a step of dispatch_main on job j changes nothing but the two queues it
\* pushes to, and the status of its own job when it returns
C2_Frame ==
    \A j \in 1..Len(dh) :
       dh[j].pc # "idle" /\ dh'[j] # dh[j] =>
          /\ parserJobs' = parserJobs /\ assemblerJobs' = assemblerJobs
          /\ store' = store /\ schema' = schema /\ keepAlive' = keepAlive
          /\ ph' = ph
          /\ dispatchJobs' \in {SetStatus(dispatchJobs, j, st) :
                                   st \in {dispatchJobs[j].status, "Done", "Failed"}}
          /\ analyzerJobs' \in {analyzerJobs,
                                push(analyzerJobs, dispatchJobs[j].job)}
          /\ translatorJobs' \in {translatorJobs,
                                  push(translatorJobs, dispatchJobs[j].job)}

\* C2, amended: every Dispatch job whose dispatch_main has returned Ok has
\* exactly one Analyze job and exactly one Translate job, each with its
\* file_path and file_name; no Dispatch job ever has more than one of either;
\* a failed push leaves the job with no Analyze job, or with one Analyze job
\* and no Translate job; and the handler changes no other queue and no store.
C2_OnePerSucceeded == []C2_Pushes /\ [][C2_Frame]_vars

C2_Witness ==
    \E j \in 1..Len(dispatchJobs) :
       /\ dh[j].pc = "ok" /\ dispatchJobs[j].status = "Done"
       /\ Cardinality(RowsOf(analyzerJobs, dispatchJobs[j].job)) = 1
       /\ Cardinality(RowsOf(translatorJobs, dispatchJobs[j].job)) = 1

AtomRules ==
    {"MessageNumber", "MessageSpeakerName", "MessageSpeakerTachie",
     "MessageContentQuoted", "MessageContentUnquoted"}

AtomField(rule) ==
    CASE rule = "MessageNumber" -> "id"
      [] rule = "MessageSpeakerName" -> "name"
      [] rule = "MessageSpeakerTachie" -> "tachie"
      [] rule \in {"MessageContentQuoted", "MessageContentUnquoted"} -> "content"

\* a Message node none of whose forms has a numeric-id atom among its children
NoIdAtom(node) ==
    /\ node.rule = "IMessage"
    /\ \A f \in 1..Len(node.kids) : \A a \in 1..Len(node.kids[f].kids) :
          node.kids[f].kids[a].rule # "MessageNumber"

\* a Message node of one form whose children are atoms of different fields,
\* none of them the numeric id
AtomsNoId(node) ==
    /\ NoIdAtom(node)
    /\ Len(node.kids) = 1
    /\ node.kids[1].rule \in MessageFormRules
    /\ \A a \in 1..Len(node.kids[1].kids) : node.kids[1].kids[a].rule \in AtomRules
    /\ \A a, b \in 1..Len(node.kids[1].kids) :
          a # b => AtomField(node.kids[1].kids[a].rule) # AtomField(node.kids[1].kids[b].rule)

\* whenever parse_file fails, parser_main fails and the Dispatch queue never
\* holds a job of the file
C3_NoDispatchOnFailure ==
    \A i \in 1..Len(parserJobs) :
       /\ ParseFileFailed(ph[i]) =>
             parserJobs[i].status = "Failed" /\ DispatchRowsOf(i) = {}
       /\ DispatchRowsOf(i) # {} => ph[i].pc = "ok"

\* C3: whenever parse_file fails, parser_main fails and the Dispatch queue
\* never holds a job of the file.  In particular a Message the walk
\* dispatches that has no numeric-id atom never reaches the store, and when
\* its form's children are atoms of different fields it fails at build with
\* the error of the missing id, which fails the Parse job with no Dispatch
\* job.
C3_NoIdIsBuildError ==
    /\ C3_NoDispatchOnFailure
    /\ \A i \in 1..Len(parserJobs) :
          ph[i].visited # <<>> /\ ph[i].pc # "walk" =>
             LET node == ph[i].tree.kids[ph[i].visited[Len(ph[i].visited)][1] + 1]
                 rows == store[parserJobs[i].job.file_name]
             IN  /\ NoIdAtom(node) =>
                       /\ ParseFileFailed(ph[i])
                       /\ \A m \in 1..Len(rows) : rows[m].content.type # "IMessage"
                 /\ AtomsNoId(node) => ph[i].err = "'id' must be initialized"

C3_Witness ==
    \E i \in 1..Len(parserJobs) :
       /\ WalkFailed(ph[i])
       /\ AtomsNoId(ph[i].tree.kids[ph[i].k])
       /\ Len(ph[i].tree.kids[ph[i].k].kids[1].kids) >= 2
       /\ ph[i].err = "'id' must be initialized"
       /\ parserJobs[i].status = "Failed" /\ DispatchRowsOf(i) = {}

\* C4: the Dispatch queue holds no job of the file of a Parse job whose
\* parse_file has not returned or whose walk has a child left to dispatch.
C4_DispatchAfterWalk ==
    \A i \in 1..Len(parserJobs) :
       ph[i].pc \in {"idle", "parse_file", "walk"} \/ ph[i].k <= Len(ph[i].tree.kids)
       => DispatchRowsOf(i) = {}

C4_Witness ==
    \E i, n \in 1..Len(parserJobs) :
       /\ DispatchRowsOf(i) # {} /\ ph[i].pc = "ok"
       /\ ph[n].pc = "walk" /\ ph[n].k <= Len(ph[n].tree.kids)
       /\ ph[n].tree.kids[ph[n].k].rule \in NonMessageRules \cup {"IMessage"}

\* every child the walk dispatched returned Ok from its handler
ChildrenReturnedOk(i) ==
    \A m \in 1..Len(ph[i].visited) :
       parse(ph[i].tree.kids[ph[i].visited[m][1] + 1], ph[i].visited[m][2],
             parserJobs[i].job.file_name \in schema).res.ok

\* C5: when the walk is over and no child's handler returned an error, the
\* children dispatched are all the children of the root, the k-th (from 0)
\* with line k.
C5_EveryChildWithItsLine ==
    \A i \in 1..Len(parserJobs) :
       WalkOver(ph[i]) /\ ChildrenReturnedOk(i) =>
          ph[i].visited = [m \in 1..Len(ph[i].tree.kids) |-> <<m - 1, m - 1>>]

\* ;Hello comment / #include other.sc / 1 Alice [happy] "Hi there"
ScenarioTree == Root(<<Comment, Include, MessageFull>>)

ScenarioSegments ==
    <<[type |-> "INonMessage", line |-> 0, content |-> <<";Hello comment">>],
      [type |-> "INonMessage", line |-> 1, content |-> <<"#include other.sc">>],
      [type |-> "IMessage", line |-> 2, id |-> 1, name |-> <<"Alice">>,
       tachie |-> <<"happy">>, content |-> <<"Hi there">>]>>

\* C6: once the walk of the scenario's tree is over, with the table in the
\* store, parse_file has returned Ok and the store holds the three segments
\* of the scenario, in order.
C6_ScenarioSegments ==
    \A i \in 1..Len(parserJobs) :
       /\ ph[i].tree = ScenarioTree
       /\ parserJobs[i].job.file_name \in schema
       /\ WalkOver(ph[i])
       => /\ ~ParseFileFailed(ph[i])
          /\ [m \in 1..Len(store[parserJobs[i].job.file_name]) |->
                 store[parserJobs[i].job.file_name][m].content] = ScenarioSegments

\* the fragments combined and the results, once CombinePair has acted
Combined == Len(cOut) >= 2
SameVariant == cIn[1].variant = cIn[2].variant

\* the union of two fragments: each field from the side that has it set
UnionOf(a, b) ==
    [f \in DOMAIN a |->
        IF f = "variant" THEN a.variant
        ELSE IF IsSome(a[f]) THEN a[f] ELSE b[f]]

\* C7: combine of two fragments of one variant with disjoint set fields is
\* Ok, in both orders, and its builder has each field as the one side that
\* set it has it, and unset when neither did.
C7_DisjointIsUnion ==
    Combined /\ SameVariant /\ Disjoint(cIn[1], cIn[2]) =>
       /\ cOut[1] = Ok(UnionOf(cIn[1], cIn[2]))
       /\ cOut[2] = Ok(UnionOf(cIn[2], cIn[1]))
       /\ SetFields(cOut[1].val) = SetFields(cIn[1]) \cup SetFields(cIn[2])

C7_Witness ==
    /\ Combined /\ SameVariant /\ Disjoint(cIn[1], cIn[2])
    /\ SetFields(cIn[1]) = {"line", "name"}
    /\ SetFields(cIn[2]) = {"id", "content"}
    /\ cOut[1].ok /\ SetFields(cOut[1].val) = {"line", "id", "name", "content"}

\* C8: combine of two fragments of one variant that both set some field is
\* a merge conflict in both orders, also when the two values are equal.
C8_CommonFieldConflicts ==
    Combined /\ SameVariant /\ ~Disjoint(cIn[1], cIn[2]) =>
       IsMergeConflict(cOut[1]) /\ IsMergeConflict(cOut[2])

C8_Witness ==
    /\ Combined /\ SameVariant
    /\ IsSome(cIn[1].content) /\ cIn[1].content = cIn[2].content
    /\ SetFields(cIn[1]) \cap SetFields(cIn[2]) = {"content"}
    /\ IsMergeConflict(cOut[1]) /\ IsMergeConflict(cOut[2])

\* C9: combine of a message fragment and a non-message fragment is a type
\* mismatch in both orders, whatever fields they set.
C9_VariantsMismatch ==
    Combined /\ ~SameVariant =>
       IsTypeMismatch(cOut[1]) /\ IsTypeMismatch(cOut[2])

C9_Witness ==
    /\ Combined
    /\ cIn[1] = new_message /\ cIn[2] = new_non_message
    /\ IsTypeMismatch(cOut[1]) /\ IsTypeMismatch(cOut[2])

\* C10: over fragments of one variant with pairwise disjoint set fields,
\* combine gives the same builder in both orders of two and in both
\* groupings of three.
C10_CommutativeAssociative ==
    /\ Combined /\ SameVariant /\ Disjoint(cIn[1], cIn[2]) =>
          cOut[1].ok /\ cOut[1] = cOut[2]
    /\ Len(cOut) = 4 => cOut[3].ok /\ cOut[3] = cOut[4]

C10_Witness ==
    /\ Len(cOut) = 4
    /\ SetFields(cIn[1]) = {"content"} /\ SetFields(cIn[2]) = {"name", "tachie"}
    /\ SetFields(cIn[3]) = {"id"}
    /\ cOut[3].ok /\ cOut[3] = cOut[4]
    /\ SetFields(cOut[3].val) = {"id", "name", "tachie", "content"}

\* the segment a message builder with its mandatory fields set builds
MessageOf(b) ==
    [type |-> "IMessage", line |-> b.line[1], id |-> b.id[1],
     name |-> IF "name" \in SetFields(b) THEN b.name[1] ELSE <<>>,
     tachie |-> IF "tachie" \in SetFields(b) THEN b.tachie[1] ELSE <<>>,
     content |-> b.content[1]]

\* C11: build of a message builder is Ok exactly when line, id and content
\* are set, and then the segment has the values set and the empty string for
\* name and tachie when unset; otherwise it is a build error.  Build of a
\* non-message builder is Ok exactly when line and content are set.
C11_BuildNeedsMandatory ==
    \A k \in 1..Len(cBuilt) :
       IF cIn[k].variant = "IMessage"
       THEN /\ cBuilt[k].ok <=> {"line", "id", "content"} \subseteq SetFields(cIn[k])
            /\ cBuilt[k].ok => cBuilt[k].val = MessageOf(cIn[k])
            /\ ~cBuilt[k].ok => IsBuildError(cBuilt[k])
       ELSE /\ cBuilt[k].ok <=> {"line", "content"} \subseteq SetFields(cIn[k])
            /\ cBuilt[k].ok =>
                  cBuilt[k].val = [type |-> "INonMessage", line |-> cIn[k].line[1],
                                   content |-> cIn[k].content[1]]
            /\ ~cBuilt[k].ok => IsBuildError(cBuilt[k])

\* a message builder with only the mandatory fields set is built with the
\* empty name and tachie, next to one that lacks its id and fails
C11_Witness ==
    /\ Len(cBuilt) = 2
    /\ SetFields(cIn[1]) = {"line", "id", "content"}
    /\ cBuilt[1].ok /\ cBuilt[1].val.name = <<>> /\ cBuilt[1].val.tachie = <<>>
    /\ SetFields(cIn[2]) = {"line", "name", "content"}
    /\ cBuilt[2] = Err("'id' must be initialized")

\* the jobs whose handler is in progress: called and not yet returned
ParseInProgress == {i \in 1..Len(ph) : ph[i].pc \notin {"idle", "ok", "err"}}
DispatchInProgress == {j \in 1..Len(dh) : dh[j].pc \notin {"idle", "ok", "err"}}

\* C12: never more Parse handlers in progress than the concurrency of the
\* Parse worker (4), never more Dispatch handlers in progress than that of
\* the Dispatch worker (2).
C12_WithinConcurrency ==
    /\ Cardinality(ParseInProgress) <= ParseConcurrency
    /\ Cardinality(DispatchInProgress) <= DispatchConcurrency

\* four Parse handlers in progress and a fifth Parse job left pending
C12_Witness ==
    /\ Cardinality(ParseInProgress) = ParseConcurrency
    /\ \E i \in 1..Len(parserJobs) : parserJobs[i].status = "Pending"

\* what the handler of the m-th child dispatched by the walk of job i returned
VisitedResult(i, m) ==
    parse(ph[i].tree.kids[ph[i].visited[m][1] + 1], ph[i].visited[m][2],
          parserJobs[i].job.file_name \in schema)

\* the segments the first m children dispatched by the walk of job i inserted
RECURSIVE WalkInserts(_, _)
WalkInserts(i, m) ==
    IF m = 0 THEN <<>>
    ELSE WalkInserts(i, m - 1) \o VisitedResult(i, m).ins

SegmentsOf(name) == [m \in 1..Len(store[name]) |-> store[name][m].content]

\* a walk that has failed: the error is that of the child dispatched last,
\* every child before it went through the loop without error, the Parse
\* job is failed once, and the store holds every segment the walk inserted
C13_FailedWalk ==
    \A i \in 1..Len(parserJobs) :
       WalkFailed(ph[i]) =>
          LET n == Len(ph[i].visited)
          IN  /\ ph[i].visited = [m \in 1..n |-> <<m - 1, m - 1>>]
              /\ ph[i].k = n
              /\ \A m \in 1..(n - 1) : MusicaChild(VisitedResult(i, m).res).ok
              /\ ~MusicaChild(VisitedResult(i, n).res).ok
              /\ ph[i].err = MusicaChild(VisitedResult(i, n).res).err
              /\ parserJobs[i].status = "Failed" /\ DispatchRowsOf(i) = {}
              /\ SegmentsOf(parserJobs[i].job.file_name) = WalkInserts(i, n)

\* no step removes or changes a row of a store, and no step dispatches a
\* child of a walk that has failed
C13_NoRollback ==
    /\ \A name \in DOMAIN store :
          /\ Len(store'[name]) >= Len(store[name])
          /\ SubSeq(store'[name], 1, Len(store[name])) = store[name]
    /\ \A i \in 1..Len(ph) : ph[i].pc = "err" => ph'[i] = ph[i]

\* C13: a walk that fails at a child returns that child's error, the first
\* one, as the one failure of the Parse job; no later child is dispatched;
\* and the segments inserted during the walk stay in the store.
C13_FirstErrorNoRollback == []C13_FailedWalk /\ [][C13_NoRollback]_vars

\* a walk that failed at its second child, which had inserted its segment,
\* with a third child left
C13_Witness ==
    \E i \in 1..Len(parserJobs) :
       /\ WalkFailed(ph[i])
       /\ Len(ph[i].visited) = 2 /\ Len(ph[i].tree.kids) = 3
       /\ Len(store[parserJobs[i].job.file_name]) = 1
       /\ store[parserJobs[i].job.file_name][1].content.line = 1

\* C14: once parse_file has started the walk of a file, the store of the
\* file has its table (schema holds the names whose store was provisioned),
\* and no insert of a walk is issued against a store without it.
C14_SchemaBeforeInsert ==
    \A i \in 1..Len(parserJobs) :
       /\ ph[i].pc = "walk" => parserJobs[i].job.file_name \in schema
       /\ ph[i].err # NoSuchTable

\* no call on a store or on a queue has failed
C15_NoIoFailure ==
    /\ mainPc # "failed"
    /\ \A i \in 1..Len(ph) :
          ph[i].err \notin {"create_db_connection", "read_to_string", "push",
                            NoSuchTable}
    /\ \A j \in 1..Len(dh) : dh[j].err = ""

\* the file of the p-th Parse job has gone through the Dispatch stage: it
\* has a Dispatch job, handled, and one Analyze and one Translate job
C15_FannedOut(p) ==
    \E j \in 1..Len(dispatchJobs) :
       /\ p <= Len(parserJobs)
       /\ SameFile(dispatchJobs[j].job, parserJobs[p].job)
       /\ dh[j].pc = "ok"
       /\ Cardinality(RowsOf(analyzerJobs, parserJobs[p].job)) = 1
       /\ Cardinality(RowsOf(translatorJobs, parserJobs[p].job)) = 1

\* parser_main has returned on the p-th Parse job; parse_file has returned
\* Ok on it
C15_Handled(p) == p <= Len(ph) /\ ph[p].pc \in {"ok", "err"}
C15_Extracted(p) == p <= Len(ph) /\ ph[p].pc \in {"lock", "push", "ok"}

\* C15: under fair scheduling, in a run with no store or queue failure,
\* every Parse job main has pushed is eventually handled by parser_main,
\* and one whose file was extracted with success eventually has its
\* Dispatch job and then its Analyze and its Translate job.
C15_EventuallyThrough ==
    []C15_NoIoFailure =>
       \A p \in Files :
          /\ [](Len(parserJobs) >= p => <>C15_Handled(p))
          /\ [](C15_Extracted(p) => <>C15_FannedOut(p))

\* the handlers that are between the acquisition of a queue's write lock
\* and the end of their push on it
InDispatchPush == {i \in 1..Len(ph) : ph[i].pc = "push"}
InAnalyzerPush == {j \in 1..Len(dh) : dh[j].pc = "push analyzer"}
InTranslatorPush == {j \in 1..Len(dh) : dh[j].pc = "push translator"}

\* the handler inside a push on a queue is the holder of its lock: there is
\* at most one, and the lock is free when there is none
C16_HolderPushes ==
    /\ InDispatchPush = IF dispatchLock = NoHolder THEN {} ELSE {dispatchLock}
    /\ InAnalyzerPush = IF analyzerLock = NoHolder THEN {} ELSE {analyzerLock}
    /\ InTranslatorPush = IF translatorLock = NoHolder THEN {} ELSE {translatorLock}

\* a step that adds a job to a queue is taken by the holder of its lock,
\* which took it in its step before, and frees it
C16_PushUnderLock ==
    /\ Len(dispatchJobs') > Len(dispatchJobs) =>
          /\ dispatchLock # NoHolder /\ dispatchLock' = NoHolder
          /\ ph'[dispatchLock].pc = "ok"
    /\ Len(analyzerJobs') > Len(analyzerJobs) =>
          /\ analyzerLock # NoHolder /\ analyzerLock' = NoHolder
          /\ dh'[analyzerLock].pc = "lock translator"
    /\ Len(translatorJobs') > Len(translatorJobs) =>
          /\ translatorLock # NoHolder /\ translatorLock' = NoHolder
          /\ dh'[translatorLock].pc = "ok"

\* C16: every push of a handler on the Dispatch, the Analyze or the
\* Translate queue is made holding the write lock of the queue, taken just
\* before and freed with the push; no two handlers are inside a push on
\* one queue.
C16_PushesSerialized == []C16_HolderPushes /\ [][C16_PushUnderLock]_vars

\* one parser_main holds the lock of the Dispatch queue while another waits
\* for it
C16_Witness ==
    \E i, n \in 1..Len(ph) :
       /\ ph[i].pc = "push" /\ dispatchLock = i
       /\ ph[n].pc = "lock"

\* the names of the stores whose handle the registry holds
Registered == {keepAlive[k] : k \in 1..Len(keepAlive)}

\* every Parse job in the queue, and so every job a handler is called on,
\* is of a file whose handle is in the registry
C17_JobsRegistered ==
    /\ \A i \in 1..Len(parserJobs) : parserJobs[i].job.file_name \in Registered
    /\ \A j \in 1..Len(dispatchJobs) : dispatchJobs[j].job.file_name \in Registered
    /\ \A i \in 1..Len(ph) :
          ph[i].pc # "idle" => parserJobs[i].job.file_name \in Registered

\* a step leaves every handle of the registry in its place; one that adds a
\* handle is taken with the write guard held; one that pushes a Parse job
\* adds nothing but the handle of the file of the job
C17_OnlyGrows ==
    /\ Len(keepAlive') >= Len(keepAlive)
    /\ SubSeq(keepAlive', 1, Len(keepAlive)) = keepAlive
    /\ keepAlive' # keepAlive => KeepAliveWriteHeld
    /\ Len(parserJobs') > Len(parserJobs) =>
          keepAlive' = Append(keepAlive, parserJobs'[Len(parserJobs')].job.file_name)

\* C17: the registry of store handles only grows, and the handle of the
\* file of every Parse job is in it, added under the write guard no later
\* than the job is pushed, so while any handler is at work on the file.
C17_RegistryKeepsAlive == []C17_JobsRegistered /\ [][C17_OnlyGrows]_vars

\* a walk under way on the second file, both handles in the registry
C17_Witness ==
    /\ Len(keepAlive) = NFiles
    /\ \E i \in 1..Len(ph) :
          /\ i > 1 /\ ph[i].pc = "walk"
          /\ keepAlive[i] = parserJobs[i].job.file_name

\* C18: the Assemble queue is empty in every state: main, parser_main and
\* dispatch_main push no Assemble job.
C18_AssembleEmpty == assemblerJobs = <<>>

\* a file has gone through both workers, and the Assemble queue is empty
C18_Witness ==
    /\ assemblerJobs = <<>>
    /\ analyzerJobs # <<>> /\ translatorJobs # <<>>
    /\ \E j \in 1..Len(dh) : dh[j].pc = "ok"

\* what the handlers of the children of a node return, in document order
Fragments(node, line, tbl) ==
    [k \in 1..Len(node.kids) |-> parse(node.kids[k], line, tbl).res]

\* the fields the builder of a form has set before its k-th child: the line,
\* and the fields of the fragments of the children before
FieldsBefore(frs, k) ==
    {"line"} \cup UNION {SetFields(frs[m].val[1]) :
                            m \in {n \in 1..(k - 1) : frs[n].ok /\ IsSome(frs[n].val)}}

\* the children a form cannot merge, given that those before were merged:
\* its handler failed, or returned no fragment, or its fragment sets a field
\* that is set already
Unmergeable(frs) ==
    {k \in 1..Len(frs) :
        \/ ~frs[k].ok
        \/ ~IsSome(frs[k].val)
        \/ SetFields(frs[k].val[1]) \cap FieldsBefore(frs, k) # {}}

\* the union of the fragments of the children of a form, with the line
UnionOfFragments(frs, line) ==
    [f \in DOMAIN new_message |->
        IF f = "variant" THEN "IMessage"
        ELSE IF f = "line" THEN Some(line)
        ELSE IF \E k \in 1..Len(frs) : IsSome(frs[k].val[1][f])
        THEN (CHOOSE v \in {frs[k].val[1][f] : k \in 1..Len(frs)} : IsSome(v))
        ELSE None]

\* the error of the first child, in document order, that cannot be merged
FirstUnmergeable(frs) ==
    LET k == CHOOSE n \in Unmergeable(frs) : \A m \in Unmergeable(frs) : n <= m
        common == SetFields(frs[k].val[1]) \cap FieldsBefore(frs, k)
        first == CHOOSE n \in 1..5 :
                    /\ MessageFields[n] \in common
                    /\ \A m \in 1..5 : MessageFields[m] \in common => n <= m
    IN  IF ~frs[k].ok THEN frs[k].err
        ELSE IF ~IsSome(frs[k].val) THEN into_any_result(None).err
        ELSE "Conflict when merging field '" \o MessageFields[first] \o "'"

\* what a named or unnamed form returns, said of its children: the union of
\* all their fragments, or the error of the first that cannot be merged
FormReturns(form, line, tbl) ==
    LET frs == Fragments(form, line, tbl)
    IN  IF Unmergeable(frs) = {} THEN Ok(Some(UnionOfFragments(frs, line)))
        ELSE Err(FirstUnmergeable(frs))

\* the forms among the children a walk has dispatched, with their lines: a
\* form under the root, or the one form of a Message
FormsVisited(i) ==
    LET node(m) == ph[i].tree.kids[ph[i].visited[m][1] + 1]
    IN  {<<node(m), ph[i].visited[m][2]>> :
            m \in {n \in 1..Len(ph[i].visited) : node(n).rule \in MessageFormRules}}
        \cup {<<node(m).kids[1], ph[i].visited[m][2]>> :
                 m \in {n \in 1..Len(ph[i].visited) :
                           node(n).rule = "IMessage" /\ node(n).kids # <<>>}}

VisitedNode(i, m) == ph[i].tree.kids[ph[i].visited[m][1] + 1]
VisitedLine(i, m) == ph[i].visited[m][2]

\* the Message nodes among the children a walk has dispatched whose form
\* has returned its accumulated builder
Accumulated(i) ==
    {m \in 1..Len(ph[i].visited) :
        /\ VisitedNode(i, m).rule = "IMessage"
        /\ VisitedNode(i, m).kids # <<>>
        /\ LET f == parse(VisitedNode(i, m).kids[1], VisitedLine(i, m),
                          parserJobs[i].job.file_name \in schema).res
           IN  f.ok /\ IsSome(f.val)}

\* the named and unnamed forms insert nothing and, when their accumulation
\* succeeds, return a builder, not a segment; no handler but that of a
\* Message inserts a Message segment
C20_FormsReturnBuilders ==
    \A i \in 1..Len(parserJobs) :
       /\ \A fl \in FormsVisited(i) :
             LET f == parse(fl[1], fl[2], parserJobs[i].job.file_name \in schema)
             IN  /\ f.ins = <<>>
                 /\ f.res.ok =>
                       /\ IsSome(f.res.val)
                       /\ f.res.val[1].variant = "IMessage"
                       /\ f.res.val[1].line = Some(fl[2])
       /\ \A m \in 1..Len(ph[i].visited) :
             \A n \in 1..Len(VisitedResult(i, m).ins) :
                VisitedResult(i, m).ins[n].type = "IMessage" =>
                   VisitedNode(i, m).rule = "IMessage"
       /\ SegmentsOf(parserJobs[i].job.file_name) = WalkInserts(i, Len(ph[i].visited))

\* C20, as claimed: every Message node whose accumulation has succeeded has
\* inserted, into a store that has its table, exactly one Message segment,
\* with the line of the walk; the forms insert nothing and return their
\* builder.
C20_AccumulatedIsPersisted ==
    /\ C20_FormsReturnBuilders
    /\ \A i \in 1..Len(parserJobs) : \A m \in Accumulated(i) :
          parserJobs[i].job.file_name \in schema =>
          /\ Len(VisitedResult(i, m).ins) = 1
          /\ VisitedResult(i, m).ins[1].type = "IMessage"
          /\ VisitedResult(i, m).ins[1].line = VisitedLine(i, m)

\* C20, amended: every Message node whose accumulation has succeeded builds
\* its builder; when the build is Ok and the store takes the insert it has
\* inserted exactly one Message segment, the one built, with the line of
\* the walk; when the build or the insert fails it has inserted nothing and
\* returned that error.  The forms insert nothing and return their builder.
C20_BuiltIsPersisted ==
    /\ C20_FormsReturnBuilders
    /\ \A i \in 1..Len(parserJobs) : \A m \in Accumulated(i) :
          LET tbl == parserJobs[i].job.file_name \in schema
              f == parse(VisitedNode(i, m).kids[1], VisitedLine(i, m), tbl).res
              built == IMessageModelBuilder_build(f.val[1])
              r == VisitedResult(i, m)
          IN  /\ built.ok /\ tbl =>
                    /\ r.res = Ok(None)
                    /\ r.ins = <<built.val>>
                    /\ r.ins[1].type = "IMessage"
                    /\ r.ins[1].line = VisitedLine(i, m)
              /\ ~built.ok => r.ins = <<>> /\ r.res = Err(built.err)
              /\ built.ok /\ ~tbl => r.ins = <<>> /\ r.res = Err(NoSuchTable)

\* a Message dispatched second, with line 1, after a form under the root
\* that inserted nothing: the store holds its one segment, of line 1
C20_Witness ==
    \E i \in 1..Len(parserJobs) :
       /\ Len(ph[i].visited) = 2
       /\ VisitedNode(i, 1).rule \in MessageFormRules
       /\ 2 \in Accumulated(i)
       /\ Len(store[parserJobs[i].job.file_name]) = 1
       /\ store[parserJobs[i].job.file_name][1].content.type = "IMessage"
       /\ store[parserJobs[i].job.file_name][1].content.line = 1

\* the Non-message segment of a line and a text
NonMessageOf(line, text) == [type |-> "INonMessage", line |-> line, content |-> text]

AtomsVisited(i) ==
    UNION {{<<fl[1].kids[k], fl[2]>> :
              k \in {n \in 1..Len(fl[1].kids) : fl[1].kids[n].rule \in AtomRules}} :
           fl \in FormsVisited(i)}

\* the number a text of digits denotes
RECURSIVE Decimal(_, _)
Decimal(t, k) == IF k = 0 THEN 0 ELSE Decimal(t, k - 1) * 10 + DigitVal(t[k])

\* the fragment with the one field set
OneField(field, value) ==
    [f \in DOMAIN new_message |->
        IF f = "variant" THEN "IMessage"
        ELSE IF f = field THEN Some(value) ELSE None]

\* the value of the field of an atom: the number its text denotes for the
\* numeric id, its text for the others
AtomValue(node) ==
    IF node.rule = "MessageNumber" THEN Decimal(node.text, Len(node.text))
    ELSE node.text

\* C22, as claimed: the handler of every atom inserts nothing and returns
\* the fragment that has its own field set and no other.
C22_AtomsReturnOneField ==
    \A i \in 1..Len(parserJobs) : \A al \in AtomsVisited(i) :
       LET r == parse(al[1], al[2], parserJobs[i].job.file_name \in schema)
       IN  /\ r.ins = <<>>
           /\ r.res.ok /\ IsSome(r.res.val)
           /\ SetFields(r.res.val[1]) = {AtomField(al[1].rule)}

\* C22, amended: the handler of every atom inserts nothing.  That of a name,
\* a tachie or a content returns the fragment with its own field set to the
\* text and no other field, the line neither.  That of a numeric id does so
\* with the number the text denotes when that is an i32 (here: a text of at
\* most 9 digits), and returns the error of the conversion, and no
\* fragment, when it is not (here: ten digits, the first above 2).
C22_AtomsReturnOneFieldOrError ==
    \A i \in 1..Len(parserJobs) : \A al \in AtomsVisited(i) :
       LET r == parse(al[1], al[2], parserJobs[i].job.file_name \in schema)
       IN  /\ r.ins = <<>>
           /\ al[1].rule # "MessageNumber" \/ Len(al[1].text) \in 1..9 =>
                 r.res = Ok(Some(OneField(AtomField(al[1].rule), AtomValue(al[1]))))
           /\ /\ al[1].rule = "MessageNumber"
              /\ Len(al[1].text) = 10 /\ DigitVal(al[1].text[1]) > 2
              => r.res = Err("number too large to fit in target type")

\* a form under the root with a number and a content has been dispatched,
\* the walk goes on and the store is empty
C22_Witness ==
    \E i \in 1..Len(parserJobs) :
       /\ ph[i].pc = "walk" /\ Len(ph[i].visited) = 1
       /\ VisitedNode(i, 1).rule \in MessageFormRules
       /\ \E al \in AtomsVisited(i) : al[1].rule = "MessageNumber"
       /\ \E al \in AtomsVisited(i) : al[1].rule = "MessageContentUnquoted"
       /\ store[parserJobs[i].job.file_name] = <<>>

NoFragment == into_any_result(None).err

\* a walk whose child dispatched last returned no fragment has stopped at
\* it with the error of the missing fragment: the child and the line
\* counter stand where they stood, the Parse job is failed
C23_WalkStopsAtNone ==
    \A i \in 1..Len(parserJobs) :
       LET n == Len(ph[i].visited)
       IN  /\ n > 0 /\ VisitedResult(i, n).res = Ok(None) =>
                 /\ ph[i].pc = "err" /\ ph[i].err = NoFragment
                 /\ ph[i].k = n /\ ph[i].line = VisitedLine(i, n)
                 /\ ph[i].visited[n] = <<n - 1, n - 1>>
                 /\ parserJobs[i].status = "Failed" /\ DispatchRowsOf(i) = {}
           /\ \A m \in 1..(n - 1) :
                 VisitedResult(i, m).res.ok /\ IsSome(VisitedResult(i, m).res.val)

\* a form one of whose children returns no fragment, those before it
\* merged, returns the error of the missing fragment, whatever its later
\* children are; and so does the Message above it
C23_FormStopsAtNone ==
    \A i \in 1..Len(parserJobs) :
       LET tbl == parserJobs[i].job.file_name \in schema
       IN  /\ \A fl \in FormsVisited(i) :
                 LET frs == Fragments(fl[1], fl[2], tbl)
                 IN  \A k \in 1..Len(frs) :
                        /\ frs[k] = Ok(None)
                        /\ \A m \in 1..(k - 1) : m \notin Unmergeable(frs)
                        => parse(fl[1], fl[2], tbl).res = Err(NoFragment)
           /\ \A m \in 1..Len(ph[i].visited) :
                 /\ VisitedNode(i, m).rule = "IMessage"
                 /\ VisitedNode(i, m).kids # <<>>
                 /\ parse(VisitedNode(i, m).kids[1], VisitedLine(i, m), tbl).res
                       = Err(NoFragment)
                 => /\ VisitedResult(i, m) = Returned(Err(NoFragment), <<>>)
                    /\ ph[i].pc = "err" /\ ph[i].err = NoFragment

\* C23: the walk of the root and the named and unnamed forms take a child
\* whose handler returns no fragment for an error and stop at it: no later
\* child is dispatched, the line counter is not advanced, and the error
\* goes up, through the Message, to parse_file.
C23_NoFragmentIsError == C23_WalkStopsAtNone /\ C23_FormStopsAtNone

\* a walk stopped at its second child, an end-of-input node that returned
\* no fragment, with line 1, a third child left and nothing in the store
C23_Witness ==
    \E i \in 1..Len(parserJobs) :
       /\ Len(ph[i].visited) = 2 /\ Len(ph[i].tree.kids) = 3
       /\ VisitedNode(i, 2).rule = "EOI"
       /\ ph[i].pc = "err" /\ ph[i].err = NoFragment /\ ph[i].line = 1
       /\ store[parserJobs[i].job.file_name] = <<>>

\* C24: one parse_file call leaves at most one segment in the store of its
\* file; every handler that inserted a segment inserted one and returned no
\* fragment; a parse_file that returned Ok inserted none; and no Dispatch
\* job is in the queue for a Parse job whose walk inserted a segment.
C24_SuccessInsertsNothing ==
    \A i \in 1..Len(parserJobs) :
       LET rows == store[parserJobs[i].job.file_name]
       IN  /\ Len(rows) <= 1
           /\ \A m \in 1..Len(ph[i].visited) :
                 VisitedResult(i, m).ins # <<>> =>
                    /\ Len(VisitedResult(i, m).ins) = 1
                    /\ VisitedResult(i, m).res = Ok(None)
                    /\ m = Len(ph[i].visited)
                    /\ ph[i].pc = "err" /\ ph[i].err = NoFragment
           /\ ph[i].pc \in {"lock", "push", "ok"} => rows = <<>>
           /\ rows # <<>> => parserJobs[i].status = "Failed"
           /\ DispatchRowsOf(i) # {} => rows = <<>>

\* a parse_file that failed having inserted the segment of a Message, its
\* second child, after a form that inserted nothing; no Dispatch job
C24_Witness ==
    \E i \in 1..Len(parserJobs) :
       /\ Len(store[parserJobs[i].job.file_name]) = 1
       /\ Len(ph[i].visited) = 2 /\ VisitedNode(i, 2).rule = "IMessage"
       /\ ph[i].pc = "err" /\ parserJobs[i].status = "Failed"
       /\ DispatchRowsOf(i) = {}

\* the Analyze job of a Dispatch job is pushed before its Translate job; a
\* dispatch_main that failed at the first push has pushed neither, one that
\* failed at the second has its Analyze job in the queue; both have failed
\* their Dispatch job
C25_AnalyzeFirst ==
    \A j \in 1..Len(dispatchJobs) :
       LET job == dispatchJobs[j].job
           an == RowsOf(analyzerJobs, job)
           tr == RowsOf(translatorJobs, job)
       IN  /\ tr # {} => an # {}
           /\ dh[j].pc \in {"idle", "lock analyzer", "push analyzer"} =>
                 an = {} /\ tr = {}
           /\ dh[j].pc \in {"lock translator", "push translator"} =>
                 Cardinality(an) = 1 /\ tr = {}
           /\ dh[j].err = "push analyzer" =>
                 /\ an = {} /\ tr = {}
                 /\ dh[j].pc = "err" /\ dispatchJobs[j].status = "Failed"
           /\ dh[j].err = "push translator" =>
                 /\ Cardinality(an) = 1 /\ tr = {}
                 /\ dh[j].pc = "err" /\ dispatchJobs[j].status = "Failed"

\* the step in which a dispatch_main fails leaves both queues as they are,
\* and no step takes a job out of the Analyze or the Translate queue
C25_FailureKeepsQueues ==
    /\ \A j \in 1..Len(dh) :
          dh[j].pc # "err" /\ dh'[j].pc = "err" =>
             analyzerJobs' = analyzerJobs /\ translatorJobs' = translatorJobs
    /\ Len(analyzerJobs') >= Len(analyzerJobs)
    /\ SubSeq(analyzerJobs', 1, Len(analyzerJobs)) = analyzerJobs
    /\ Len(translatorJobs') >= Len(translatorJobs)
    /\ SubSeq(translatorJobs', 1, Len(translatorJobs)) = translatorJobs

\* C25: dispatch_main pushes the Analyze job before the Translate job; when
\* the Analyze push fails nothing is pushed and the Translate queue is left
\* as it is; when the Translate push fails the Analyze job stays in its
\* queue and the Dispatch job is failed.
C25_AnalyzeThenTranslate == []C25_AnalyzeFirst /\ [][C25_FailureKeepsQueues]_vars

\* a dispatch_main failed at the Translate push, its Analyze job in the queue
C25_Witness ==
    \E j \in 1..Len(dispatchJobs) :
       /\ dh[j].pc = "err" /\ dh[j].err = "push translator"
       /\ dispatchJobs[j].status = "Failed"
       /\ Cardinality(RowsOf(analyzerJobs, dispatchJobs[j].job)) = 1
       /\ RowsOf(translatorJobs, dispatchJobs[j].job) = {}

\* the holder of a queue lock stands at its push on that queue, past the
\* walk of its file, and holds no other lock; while the workers run it can
\* take that step, which frees the lock
C26_HoldersCanRelease ==
    /\ dispatchLock # NoHolder =>
          /\ ph[dispatchLock].pc = "push"
          /\ ph[dispatchLock].k > Len(ph[dispatchLock].tree.kids)
          /\ mainPc = "monitor" => ENABLED PushDispatch(dispatchLock)
    /\ analyzerLock # NoHolder =>
          /\ dh[analyzerLock].pc = "push analyzer"
          /\ translatorLock # analyzerLock
          /\ mainPc = "monitor" => ENABLED PushAnalyzer(analyzerLock)
    /\ translatorLock # NoHolder =>
          /\ dh[translatorLock].pc = "push translator"
          /\ mainPc = "monitor" => ENABLED PushTranslator(translatorLock)
    /\ \A i \in 1..Len(ph) :
          ph[i].pc \in {"parse_file", "walk"} => dispatchLock # i

\* a step that inserts into the store of a file, or goes on with its walk,
\* is taken by a handler that holds no lock, and leaves the locks alone
C26_WalkWithoutLock ==
    \A i \in 1..Len(ph) :
       \/ store'[parserJobs[i].job.file_name] # store[parserJobs[i].job.file_name]
       \/ ph[i].pc \in {"parse_file", "walk"} /\ ph'[i] # ph[i]
       => /\ dispatchLock # i
          /\ UNCHANGED <<dispatchLock, analyzerLock, translatorLock>>

\* C26: no handler holds two queue locks, and none holds one while its file
\* is walked or a segment inserted: parser_main takes the lock of the
\* Dispatch queue after parse_file has returned, dispatch_main frees the
\* lock of the Analyze queue before it takes that of the Translate queue.
\* The holder of a lock waits for nothing and can always free it, so no
\* handler waits for a lock for ever.
C26_NoLockHeldAcross == []C26_HoldersCanRelease /\ [][C26_WalkWithoutLock]_vars

\* two dispatch_main at once, one inside its Analyze push and one inside
\* its Translate push
C26_Witness ==
    \E j, n \in 1..Len(dh) :
       /\ dh[j].pc = "push translator" /\ translatorLock = j
       /\ dh[n].pc = "push analyzer" /\ analyzerLock = n
=============================================================================
